---- MODULE Spec2Model ----
(***************************************************************************)
(* MemoryPhantom: a typed accessor for the memory of another process.      *)
(* The model follows src/MemoryPhantom.cpp and src/C++/MemoryPhantom.h:    *)
(* the accessor's two fields (hProcess, processId), the OS handle table    *)
(* behind OpenProcess/CloseHandle, the target's memory behind              *)
(* ReadProcessMemory/WriteProcessMemory, and one action per method.        *)
(***************************************************************************)
EXTENDS Integers, Sequences, FiniteSets, TLC

(***************************************************************************)
(* Bounds of the model.                                                    *)
(***************************************************************************)
\* accessor objects the program creates
NumAcc == 2
\* handles the OS hands out before OpenProcess starts to fail
MaxHandles == 2
\* process ids 1..NumProcs name running processes; every other id names none
NumProcs == 1
\* sizeof(uintptr_t) in bytes, scaled down: addresses are PtrBytes bytes wide
PtrBytes == 1
\* the target maps the MapLen bytes from address MapBase on; nothing else is accessible
MapBase == 16
MapLen == 66
\* the longest string or byte block a caller asks for
MaxLen == 2
\* the values of each fixed-size type the callers write
NumVals == 2
\* the slots of FindModuleBase's local array hMods (1024 in the source), scaled
\* down; the target loads up to one module more
HModsCap == 2
\* the threads that call into one accessor at the same time
NumThreads == 2

Acc == 1..NumAcc
Handles == 1..MaxHandles
Pids == 0..(NumProcs + 1)
Threads == 1..NumThreads

\* an optional<uintptr_t>: the empty sequence is std::nullopt
None == << >>
Some(x) == << x >>

VARIABLES
    alive,      \* alive[a]: "unborn", "live" or "dead"; a new object may take a dead one's place
    hProcess,   \* hProcess[a]: the HANDLE field, 0 is nullptr
    processId,  \* processId[a]: the DWORD field
    handles,    \* the OS handle table: state, process and CloseHandle count per handle
    mem,        \* mem[x]: the byte at address x of the target's mapped memory
    writable,   \* the mapped addresses the target's page protection lets a write change
    modules,    \* the modules the target has loaded now, in the order the OS lists them
    hist,       \* hist[a]: how object a came to its present attachment (history)
    calls,      \* calls[t]: how far thread t has got in the call it is making
    held,       \* the address the caller holds from the last step of a pointer chain
    policies,   \* how the failed reads the caller has noted told it of the failure
    last        \* the last call made: its arguments, what it did and what it returned

objVars == << alive, hProcess, processId, handles, hist >>
envVars == << mem, writable, modules >>
callerVars == << held, policies, calls >>
vars == << objVars, envVars, callerVars, last >>

(***************************************************************************)
(* The OS handle table.                                                    *)
(***************************************************************************)
FreeHandles(H) == { h \in Handles : H[h].st = "free" }

Min(S) == CHOOSE x \in S : \A y \in S : x <= y

\* OpenProcess(accessRights, FALSE, pid): a new handle, or 0 (NULL) when the id
\* names no process, the OS denies access (grant = FALSE) or it has no handle left
OpenProcess(H, pid, grant) ==
    IF pid \in 1..NumProcs /\ grant /\ FreeHandles(H) # {}
    THEN Min(FreeHandles(H))
    ELSE 0

\* the handle table after OpenProcess returned h
Opened(H, h, pid) ==
    IF h = 0 THEN H ELSE [H EXCEPT ![h] = [st |-> "open", pid |-> pid, closes |-> 0]]

\* CloseHandle(h): releases the handle; the count records every release asked for
CloseHandle(H, h) ==
    [H EXCEPT ![h] = [st |-> "closed", pid |-> @.pid,
                      closes |-> IF @.closes < 2 THEN @.closes + 1 ELSE 2]]

(***************************************************************************)
(* Process Handle: construction, Attach, Detach, move, destruction.        *)
(* A world W is the record of the fields the lifecycle methods touch.      *)
(***************************************************************************)
World == [hProcess |-> hProcess, processId |-> processId, handles |-> handles]

\* a faulty Detach: it closes and clears the handle but keeps the process id
DetachKeepPid(W, a) ==
    IF W.hProcess[a] # 0
    THEN [hProcess  |-> [W.hProcess EXCEPT ![a] = 0],
          processId |-> W.processId,
          handles   |-> CloseHandle(W.handles, W.hProcess[a])]
    ELSE W

\* MemoryPhantom::Detach
DetachW(W, a) ==
    IF W.hProcess[a] # 0
    THEN [hProcess  |-> [W.hProcess EXCEPT ![a] = 0],
          processId |-> [W.processId EXCEPT ![a] = 0],
          handles   |-> CloseHandle(W.handles, W.hProcess[a])]
    ELSE W

\* a faulty Attach: it opens the new handle first and gives up the old attachment
\* only once it has one
AttachKeepOnRefusal(W, a, pid, grant) ==
    LET h == OpenProcess(W.handles, pid, grant)
        D == DetachW(W, a)
    IN  IF h = 0 THEN W
        ELSE [hProcess  |-> [D.hProcess EXCEPT ![a] = h],
              processId |-> [D.processId EXCEPT ![a] = pid],
              handles   |-> Opened(D.handles, h, pid)]

\* MemoryPhantom::Attach, the world after it
AttachW(W, a, pid, grant) ==
    LET D == DetachW(W, a)
        h == OpenProcess(D.handles, pid, grant)
    IN  [hProcess  |-> [D.hProcess EXCEPT ![a] = h],
         processId |-> IF h # 0 THEN [D.processId EXCEPT ![a] = pid] ELSE D.processId,
         handles   |-> Opened(D.handles, h, pid)]

\* MemoryPhantom::Attach, its return value
AttachRet(W, a, pid, grant) == AttachW(W, a, pid, grant).hProcess[a] # 0

\* a faulty move constructor: it copies the source's fields and leaves them set
MoveCtorKeepSource(W, dst, src) ==
    [hProcess  |-> [W.hProcess EXCEPT ![dst] = W.hProcess[src]],
     processId |-> [W.processId EXCEPT ![dst] = W.processId[src]],
     handles   |-> W.handles]

\* MemoryPhantom::MemoryPhantom(MemoryPhantom&&): dst is under construction
MoveCtorW(W, dst, src) ==
    [hProcess  |-> [W.hProcess EXCEPT ![dst] = W.hProcess[src], ![src] = 0],
     processId |-> [W.processId EXCEPT ![dst] = W.processId[src], ![src] = 0],
     handles   |-> W.handles]

\* a faulty move assignment: it leaves the source's fields set
MoveAssignKeepSource(W, dst, src) ==
    IF dst # src
    THEN LET D == DetachW(W, dst)
         IN  [hProcess  |-> [D.hProcess EXCEPT ![dst] = D.hProcess[src]],
              processId |-> [D.processId EXCEPT ![dst] = D.processId[src]],
              handles   |-> D.handles]
    ELSE W

\* MemoryPhantom::operator=(MemoryPhantom&&)
MoveAssignW(W, dst, src) ==
    IF dst # src
    THEN LET D == DetachW(W, dst)
         IN  [hProcess  |-> [D.hProcess EXCEPT ![dst] = D.hProcess[src], ![src] = 0],
              processId |-> [D.processId EXCEPT ![dst] = D.processId[src], ![src] = 0],
              handles   |-> D.handles]
    ELSE W

(***************************************************************************)
(* Remote addresses, the target's memory and the OS transfer calls.        *)
(***************************************************************************)
\* uintptr_t ranges over 0..AddrSpace-1
AddrSpace == 256 ^ PtrBytes
Mapped == MapBase..(MapBase + MapLen - 1)

\* a faulty sum: that of unbounded integers
AddOffsetNoWrap(addr, off) == addr + off

\* addr + offset with addr a uintptr_t and offset an int: the int converts to
\* uintptr_t (sign extension, that is its value modulo 2^w) and the sum wraps
AddOffset(addr, off) == (addr + (off % AddrSpace)) % AddrSpace

\* what the target holds before any write: a pointer to MapBase + 4 in its first
\* byte, then a repeating pattern with a zero byte in it
InitByte(x) == IF x = MapBase THEN MapBase + 4 ELSE x % 4

Zeros(n) == [i \in 1..n |-> 0]

\* how many of the n bytes from addr on lie in the range S of accessible addresses
\* before the first that does not
Reach(S, addr, n) == Cardinality({ k \in 1..n : \A j \in 0..(k - 1) : addr + j \in S })

\* the byte counts tried for a request of n bytes: none, half, all
Counts(n) == {0, n \div 2, n}

\* what ReadProcessMemory / WriteProcessMemory may answer to a request of n bytes at
\* addr through a handle, S being the addresses the target lets it touch: its BOOL
\* and the count it stores. A closed handle is refused; an inaccessible byte in the
\* range makes the call fail after the bytes before it; the bytes counted are
\* always transferred
OsOutcomes(open, S, addr, n) ==
    IF ~open THEN {[ok |-> FALSE, cnt |-> 0]}
    ELSE { o \in [ok : BOOLEAN, cnt : Counts(n)] :
             /\ o.cnt <= Reach(S, addr, n)
             /\ o.ok => Reach(S, addr, n) = n }

NoOs == [ok |-> FALSE, cnt |-> 0]

\* ReadProcessMemory: the buffer afterwards, its first os.cnt bytes from the target
ReadProcessMemory(M, addr, buf, os) ==
    [i \in 1..Len(buf) |-> IF i <= os.cnt THEN M[addr + i - 1] ELSE buf[i]]

\* a faulty write: the last byte counted is not stored
WriteProcessMemoryShort(M, addr, data, os) ==
    [x \in Mapped |->
        IF x >= addr /\ x - addr < os.cnt - 1 THEN data[x - addr + 1] ELSE M[x]]

\* WriteProcessMemory: the target's memory afterwards
WriteProcessMemory(M, addr, data, os) ==
    [x \in Mapped |-> IF x >= addr /\ x - addr < os.cnt THEN data[x - addr + 1] ELSE M[x]]

(***************************************************************************)
(* Typed Transfer Engine.                                                  *)
(***************************************************************************)
\* the types with a Read<Name> returning the value itself, initialised to 0
ScalarTypes ==
    {"Int", "Float", "Double", "Short", "UShort", "UInt", "ULong", "Long",
     "Bool", "Char", "Byte", "Ptr"}
\* Read<Vector3> and Read<Mat4x4> take the template's generic branch
GenericTypes == {"TVec3", "TMat"}
FixedTypes == ScalarTypes \cup {"Vec3", "Matrix"} \cup GenericTypes
\* Read<long> takes the generic branch too, and long has no constructor: the value
\* the branch declares is not initialised
PodTypes == {"TLong"}
VarTypes == {"String", "WString", "Bytes"}
Types == FixedTypes \cup VarTypes

\* sizeof(T)
SizeOf(T) ==
    CASE T \in {"Bool", "Char", "Byte"} -> 1
      [] T \in {"Short", "UShort", "WChar"} -> 2
      [] T \in {"Int", "UInt", "Float", "TLong"} -> 4
      [] T \in {"Long", "ULong", "Double"} -> 8
      [] T = "Ptr" -> PtrBytes
      [] T \in {"Vec3", "TVec3"} -> 12
      [] T \in {"Matrix", "TMat"} -> 64

\* the bytes a call asks the OS to transfer: sizeof(T), or from the length given
TransferSize(T, len) ==
    CASE T = "String" -> len
      [] T = "WString" -> len * SizeOf("WChar")
      [] T = "Bytes" -> len
      [] OTHER -> SizeOf(T)

\* InternalRead<T>(addr, value)
InternalRead(h, addr, value, os, M) ==
    IF h = 0 \/ addr = 0
    THEN [issued |-> FALSE, ok |-> FALSE, value |-> value]
    ELSE [issued |-> TRUE, ok |-> os.ok /\ os.cnt = Len(value),
          value |-> ReadProcessMemory(M, addr, value, os)]

\* InternalWrite<T>(addr, value)
InternalWrite(h, addr, value, os, M) ==
    IF h = 0 \/ addr = 0
    THEN [issued |-> FALSE, ret |-> FALSE, mem |-> M]
    ELSE [issued |-> TRUE, ret |-> os.ok /\ os.cnt = Len(value),
          mem |-> WriteProcessMemory(M, addr, value, os)]

\* a faulty conversion: the string is made of the whole buffer, zeros included
CStrWholeBuffer(buf) == buf

\* std::string(const char*) and std::wstring(const wchar_t*): up to the first zero
RECURSIVE CStr(_)
CStr(buf) ==
    IF buf = << >> \/ Head(buf) = 0 THEN << >> ELSE << Head(buf) >> \o CStr(Tail(buf))

\* the wchar_t units a byte buffer holds (two bytes each, low byte first)
Units(bytes) == [i \in 1..(Len(bytes) \div 2) |-> bytes[2 * i - 1] + 256 * bytes[2 * i]]

\* the bytes of a wide string
RECURSIVE WBytes(_)
WBytes(w) ==
    IF w = << >> THEN << >>
    ELSE << Head(w) % 256, Head(w) \div 256 >> \o WBytes(Tail(w))

\* the number a pointer-sized value holds (low byte first)
RECURSIVE PtrValue(_)
PtrValue(bytes) ==
    IF bytes = << >> THEN 0 ELSE Head(bytes) + 256 * PtrValue(Tail(bytes))

\* MemoryPhantom::InternalReadBytes
InternalReadBytes(h, addr, sz, os, M) ==
    IF h = 0 \/ addr = 0 \/ sz = 0
    THEN [issued |-> FALSE, has |-> TRUE, val |-> Zeros(sz)]
    ELSE [issued |-> TRUE, has |-> TRUE,
          val |-> IF os.ok /\ os.cnt = sz
                  THEN ReadProcessMemory(M, addr, Zeros(sz), os)
                  ELSE << >>]

\* MemoryPhantom::ReadString(uintptr_t, size_t)
ReadString(h, addr, length, os, M) ==
    IF h = 0 \/ addr = 0 \/ length = 0
    THEN [issued |-> FALSE, has |-> TRUE, val |-> << >>]
    ELSE [issued |-> TRUE, has |-> TRUE,
          val |-> IF os.ok
                  THEN CStr(ReadProcessMemory(M, addr, Zeros(length + 1), os))
                  ELSE << >>]

\* MemoryPhantom::ReadWString(uintptr_t, size_t)
ReadWString(h, addr, length, os, M) ==
    IF h = 0 \/ addr = 0 \/ length = 0
    THEN [issued |-> FALSE, has |-> TRUE, val |-> << >>]
    ELSE [issued |-> TRUE, has |-> TRUE,
          val |-> IF os.ok
                  THEN CStr(Units(ReadProcessMemory(M, addr,
                                      Zeros((length + 1) * SizeOf("WChar")), os)))
                  ELSE << >>]

\* Read<Name>(uintptr_t addr): the read of one value of type T at an address.
\* has = FALSE is std::nullopt; val is the value's bytes (characters for strings)
ReadAt(h, T, addr, len, os, M) ==
    CASE T \in ScalarTypes \cup GenericTypes ->
            LET r == InternalRead(h, addr, Zeros(SizeOf(T)), os, M)
            IN  [issued |-> r.issued, has |-> TRUE, val |-> r.value]
      [] T = "Vec3" ->
            LET r == InternalRead(h, addr, Zeros(SizeOf(T)), os, M)
            IN  [issued |-> r.issued, has |-> TRUE,
                 val |-> IF r.ok THEN r.value ELSE Zeros(SizeOf(T))]
      [] T = "Matrix" ->
            LET r == InternalRead(h, addr, Zeros(SizeOf(T)), os, M)
            IN  [issued |-> r.issued, has |-> r.ok,
                 val |-> IF r.ok THEN r.value ELSE << >>]
      [] T = "String" -> ReadString(h, addr, len, os, M)
      [] T = "WString" -> ReadWString(h, addr, len, os, M)
      [] T = "Bytes" -> InternalReadBytes(h, addr, len, os, M)

\* what the bytes of a value that was declared but not initialised may hold
JunkVals(T) == { Zeros(SizeOf(T)), [i \in 1..SizeOf(T) |-> 7] }

\* Read<T>(uintptr_t addr), generic branch, for a T without a constructor: junk is
\* what the value declared holds; the result of InternalRead is not looked at
ReadGeneric(h, T, addr, junk, os, M) ==
    LET r == InternalRead(h, addr, junk, os, M)
    IN  [issued |-> r.issued, has |-> TRUE, val |-> r.value]

\* what the overloads taking an optional address return for std::nullopt
ReadNullopt(T) ==
    CASE T \in FixedTypes \ {"Matrix"} ->
            [issued |-> FALSE, has |-> TRUE, val |-> Zeros(SizeOf(T))]
      [] T = "Matrix" -> [issued |-> FALSE, has |-> FALSE, val |-> << >>]
      [] T \in VarTypes -> [issued |-> FALSE, has |-> TRUE, val |-> << >>]

\* a faulty write: a string is padded with zeros to a field of MaxLen characters
WriteBytesOfPadded(T, value) ==
    CASE T = "WString" -> WBytes(value) \o Zeros(SizeOf("WChar") * (MaxLen - Len(value)))
      [] T = "String" -> value \o Zeros(MaxLen - Len(value))
      [] OTHER -> value

\* the bytes a write hands to WriteProcessMemory
WriteBytesOf(T, value) == IF T = "WString" THEN WBytes(value) ELSE value

\* a faulty write: a byte block is handed over as a C string, up to its first zero
WriteAtBlockAsCStr(h, T, addr, value, os, M) ==
    IF T \in VarTypes
    THEN IF h = 0 \/ addr = 0 \/ value = << >>
         THEN [issued |-> FALSE, ret |-> FALSE, mem |-> M]
         ELSE LET data == IF T = "Bytes" THEN CStr(value) ELSE WriteBytesOf(T, value)
                  cnt == IF os.cnt < Len(data) THEN os.cnt ELSE Len(data)
              IN  [issued |-> TRUE,
                   ret |-> os.ok /\ os.cnt = Len(WriteBytesOf(T, value)),
                   mem |-> WriteProcessMemory(M, addr, data, [os EXCEPT !.cnt = cnt])]
    ELSE InternalWrite(h, addr, value, os, M)

\* a faulty write: the string and block writes without their test for empty data
WriteAtNoEmptyTest(h, T, addr, value, os, M) ==
    IF T \in VarTypes
    THEN IF h = 0 \/ addr = 0
         THEN [issued |-> FALSE, ret |-> FALSE, mem |-> M]
         ELSE [issued |-> TRUE,
               ret |-> os.ok /\ os.cnt = Len(WriteBytesOf(T, value)),
               mem |-> WriteProcessMemory(M, addr, WriteBytesOf(T, value), os)]
    ELSE InternalWrite(h, addr, value, os, M)

\* Write<Name>(uintptr_t addr, value)
WriteAt(h, T, addr, value, os, M) ==
    IF T \in VarTypes
    THEN IF h = 0 \/ addr = 0 \/ value = << >>
         THEN [issued |-> FALSE, ret |-> FALSE, mem |-> M]
         ELSE [issued |-> TRUE,
               ret |-> os.ok /\ os.cnt = Len(WriteBytesOf(T, value)),
               mem |-> WriteProcessMemory(M, addr, WriteBytesOf(T, value), os)]
    ELSE InternalWrite(h, addr, value, os, M)

\* the four address shapes of every read and write
Shapes == {"addr", "addr_off", "opt", "opt_off"}

\* a faulty resolution: std::nullopt taken as the address 0 (addr.value_or(0))
EffAddrNulloptZero(shape, base, off) ==
    LET b == IF Len(base) = 1 THEN base[1] ELSE 0
    IN  IF shape \in {"addr_off", "opt_off"} THEN Some(AddOffset(b, off)) ELSE Some(b)

\* the address a call resolves its arguments to: none for std::nullopt
EffAddr(shape, base, off) ==
    CASE shape = "addr" -> Some(base[1])
      [] shape = "addr_off" -> Some(AddOffset(base[1], off))
      [] shape = "opt" -> IF Len(base) = 1 THEN Some(base[1]) ELSE None
      [] shape = "opt_off" -> IF Len(base) = 1 THEN Some(AddOffset(base[1], off)) ELSE None

\* a read through any of the four overloads
ReadShape(h, T, shape, base, off, len, os, M) ==
    LET e == EffAddr(shape, base, off)
    IN  IF Len(e) = 1 THEN ReadAt(h, T, e[1], len, os, M) ELSE ReadNullopt(T)

\* Read<T> of a T without a constructor through any of the four overloads; the
\* optional ones return T() for std::nullopt
ReadGenericShape(h, T, shape, base, off, junk, os, M) ==
    LET e == EffAddr(shape, base, off)
    IN  IF Len(e) = 1 THEN ReadGeneric(h, T, e[1], junk, os, M)
        ELSE [issued |-> FALSE, has |-> TRUE, val |-> Zeros(SizeOf(T))]

\* a write through any of the four overloads
WriteShape(h, T, shape, base, off, value, os, M) ==
    LET e == EffAddr(shape, base, off)
    IN  IF Len(e) = 1 THEN WriteAt(h, T, e[1], value, os, M)
        ELSE [issued |-> FALSE, ret |-> FALSE, mem |-> M]

(***************************************************************************)
(* Module Resolver.                                                        *)
(***************************************************************************)
\* the modules the target has loaded at first, in the order EnumProcessModules lists
\* them: the full path of each (one character per element) and its load address
TargetModules ==
    << [path |-> << "C", ":", "\\", "G", ".", "e" >>, base |-> MapBase],
       [path |-> << "C", ":", "\\", "d", "\\", "l", ".", "d" >>, base |-> MapBase + 8] >>

\* the module names the callers look for: two loaded (in another case), one not
ModuleNames == { << "g", ".", "E" >>, << "L", ".", "d" >>, << "x", ".", "d" >> }

\* tolower, as _stricmp applies it to each character
ToLower(c) ==
    CASE c = "C" -> "c" [] c = "D" -> "d" [] c = "E" -> "e" [] c = "G" -> "g"
      [] c = "L" -> "l" [] c = "X" -> "x" [] OTHER -> c

\* _stricmp(s, t) == 0
StrIEq(s, t) == Len(s) = Len(t) /\ \A i \in 1..Len(s) : ToLower(s[i]) = ToLower(t[i])

\* the base name: what follows the last backslash (strrchr), the whole when none
BaseName(path) ==
    LET slashes == { i \in 1..Len(path) : path[i] = "\\" }
    IN  IF slashes = {} THEN path
        ELSE SubSeq(path, (CHOOSE i \in slashes : \A j \in slashes : j <= i) + 1, Len(path))

\* a module the target may load later: a second one with the base name g.e, its
\* path without a directory
LateModule == [path |-> << "g", ".", "E" >>, base |-> MapBase + 16]

\* the module lists the target may have: up to HModsCap + 1 modules in any order
ModulePool == { TargetModules[1], TargetModules[2], LateModule }
ModuleLists ==
    { l \in UNION { [1..n -> ModulePool] : n \in 0..(HModsCap + 1) } :
        \A i \in 1..Len(l), j \in 1..Len(l) : i # j => l[i] # l[j] }

\* what the slots of hMods that EnumProcessModules did not fill may hold, the target
\* having mods loaded: for each such slot the module whose handle the bytes left on
\* the stack happen to be, or 0 when they are no module's handle
JunkSlots(mods) == [ { i \in 1..Len(mods) : i > HModsCap } -> 0..Len(mods) ]

\* MemoryPhantom::FindModuleBase with the target having mods loaded: enumOk is
\* EnumProcessModules's answer, named the modules GetModuleFileNameExA gives a name
\* for, junk what the slots beyond the array's capacity hold. The OS fills the
\* first HModsCap slots and reports the size of the whole list in cbNeeded; the
\* loop runs over cbNeeded / sizeof(HMODULE) slots
FindModuleBase(h, moduleName, mods, enumOk, named, junk) ==
    IF h = 0 \/ ~enumOk THEN None
    ELSE LET slot(i) == IF i <= HModsCap THEN i ELSE junk[i]
             hits == { i \in 1..Len(mods) :
                         /\ slot(i) # 0
                         /\ slot(i) \in named
                         /\ StrIEq(BaseName(mods[slot(i)].path), moduleName) }
         IN  IF hits = {} THEN None ELSE Some(mods[slot(Min(hits))].base)

(***************************************************************************)
(* CreateFromName.                                                         *)
(***************************************************************************)
\* the entries a process snapshot may list: the executable's file name in wide
\* characters (szExeFile) and the process id. "U+C9" and "U+E9" are the capital
\* and the small e with acute accent
SnapshotPool ==
    { [exe |-> << "G", ".", "e" >>, pid |-> 1],
      [exe |-> << "g", ".", "E" >>, pid |-> NumProcs + 1],
      [exe |-> << "U+C9", ".", "e" >>, pid |-> 0] }

\* the snapshots: every order of every choice of entries, none included
Snapshots ==
    { l \in UNION { [1..n -> SnapshotPool] : n \in 0..Cardinality(SnapshotPool) } :
        \A i \in 1..Len(l), j \in 1..Len(l) : i # j => l[i] # l[j] }

\* the names asked for, as the bytes of a char string: g.e, x.d, and the UTF-8
\* forms of U+E9 .e and U+C9 .E
ProcessNames ==
    { << "g", ".", "e" >>, << "x", ".", "d" >>,
      << "0xC3", "0xA9", ".", "e" >>, << "0xC3", "0x89", ".", "E" >> }

\* WideCharToMultiByte(CP_UTF8, ...): the bytes of a wide string in UTF-8, one byte
\* for an ASCII character, two for U+C9 and U+E9
RECURSIVE Utf8(_)
Utf8(w) ==
    IF w = << >> THEN << >>
    ELSE (CASE Head(w) = "U+C9" -> << "0xC3", "0x89" >>
            [] Head(w) = "U+E9" -> << "0xC3", "0xA9" >>
            [] OTHER -> << Head(w) >>) \o Utf8(Tail(w))

\* the entries of a snapshot whose executable name is processName to _stricmp
NameHits(entries, processName) ==
    { i \in 1..Len(entries) : StrIEq(Utf8(entries[i].exe), processName) }

\* a faulty CreateFromName: when the attach to a match fails it goes on to the next
CreateFromNameTryNext(W, dst, tmp, processName, snapOk, entries, grant) ==
    LET W0 == [W EXCEPT !.hProcess[tmp] = 0, !.processId[tmp] = 0]
        able == { i \in NameHits(entries, processName) :
                    OpenProcess(W0.handles, entries[i].pid, grant) # 0 }
    IN  IF ~snapOk THEN [found |-> FALSE, world |-> W, hit |-> 0, closes |-> 0]
        ELSE IF able = {} THEN [found |-> FALSE, world |-> W, hit |-> 0, closes |-> 1]
        ELSE [found |-> TRUE, hit |-> Min(able), closes |-> 1,
              world |-> DetachW(MoveCtorW(AttachW(W0, tmp, entries[Min(able)].pid, grant),
                                          dst, tmp), tmp)]

\* MemoryPhantom::CreateFromName: snapOk is whether CreateToolhelp32Snapshot gave a
\* snapshot, entries what Process32FirstW / Process32NextW list from it, grant
\* whether the OS lets the process be opened. tmp is the local phantom, dst the
\* accessor in the optional returned. The result says whether an accessor is
\* returned, the world afterwards, the entry matched and how often the snapshot
\* handle was closed
CreateFromName(W, dst, tmp, processName, snapOk, entries, grant) ==
    LET hits == NameHits(entries, processName)
        W0 == [W EXCEPT !.hProcess[tmp] = 0, !.processId[tmp] = 0]
    IN  IF ~snapOk THEN [found |-> FALSE, world |-> W, hit |-> 0, closes |-> 0]
        ELSE IF hits = {} THEN [found |-> FALSE, world |-> W, hit |-> 0, closes |-> 1]
        ELSE LET W1 == AttachW(W0, tmp, entries[Min(hits)].pid, grant)
             IN  IF W1.hProcess[tmp] # 0
                 THEN [found |-> TRUE, hit |-> Min(hits), closes |-> 1,
                       world |-> DetachW(MoveCtorW(W1, dst, tmp), tmp)]
                 ELSE [found |-> FALSE, hit |-> Min(hits), closes |-> 1,
                       world |-> DetachW(W1, tmp)]

\* the do-while loop of CreateFromName from entry i on: the calls it makes on the
\* snapshot handle, and whether it returned from inside the loop. On a match it
\* closes the handle and returns; otherwise it asks for the next entry, and leaves
\* the loop when there is none
RECURSIVE EnumLoop(_, _, _)
EnumLoop(entries, processName, i) ==
    IF StrIEq(Utf8(entries[i].exe), processName)
    THEN [calls |-> << "CloseHandle" >>, returned |-> TRUE]
    ELSE IF i < Len(entries)
         THEN LET rest == EnumLoop(entries, processName, i + 1)
              IN  [rest EXCEPT !.calls = << "Process32NextW" >> \o @]
         ELSE [calls |-> << "Process32NextW" >>, returned |-> FALSE]

\* a faulty CreateFromName: a match leaves the loop without closing the snapshot
\* and without returning, so that the one CloseHandle after the loop is meant to
\* serve every path, and the attach result is returned before it
SnapshotCallsLeakOnMatch(processName, snapOk, entries) ==
    LET hits == NameHits(entries, processName)
        nexts == IF hits = {} THEN Len(entries) ELSE Min(hits) - 1
    IN  IF ~snapOk THEN << >>
        ELSE << "Process32FirstW" >> \o [i \in 1..nexts |-> "Process32NextW"]
                \o (IF hits = {} THEN << "CloseHandle" >> ELSE << >>)

\* the calls CreateFromName makes on the snapshot handle, in order. No entries is a
\* Process32FirstW that returned FALSE: the snapshot lists nothing or the step
\* failed
SnapshotCalls(processName, snapOk, entries) ==
    IF ~snapOk THEN << >>
    ELSE IF entries = << >> THEN << "Process32FirstW", "CloseHandle" >>
    ELSE LET loop == EnumLoop(entries, processName, 1)
         IN  << "Process32FirstW" >> \o loop.calls
                \o (IF loop.returned THEN << >> ELSE << "CloseHandle" >>)

\* the slots of hMods that FindModuleBase reads (hMods[i], counted from 1): none
\* when it returns before the loop, else every slot up to the one it returns at, or
\* up to cbNeeded / sizeof(HMODULE), the length of the target's list
SlotsRead(h, moduleName, mods, enumOk, named, junk) ==
    IF h = 0 \/ ~enumOk THEN {}
    ELSE LET slot(i) == IF i <= HModsCap THEN i ELSE junk[i]
             hits == { i \in 1..Len(mods) :
                         /\ slot(i) # 0
                         /\ slot(i) \in named
                         /\ StrIEq(BaseName(mods[slot(i)].path), moduleName) }
         IN  IF hits = {} THEN 1..Len(mods) ELSE 1..Min(hits)

IsActive(a) == hProcess[a] # 0
GetPID(a) == processId[a]
GetHandle(a) == hProcess[a]

(***************************************************************************)
(* The calls. last records the call made by the step into the state.       *)
(***************************************************************************)
\* the record of a call: every action fills the fields it has
NoCall ==
    [op |-> "none", acc |-> 0, src |-> 0, pid |-> 0, grant |-> FALSE, ret |-> FALSE,
     preH |-> 0, prePid |-> 0, how |-> "none", rel |-> {},
     T |-> "none", shape |-> "none", base |-> None, off |-> 0, len |-> 0,
     arg |-> << >>, eff |-> None, issued |-> FALSE, os |-> NoOs,
     has |-> FALSE, val |-> << >>, wrote |-> FALSE, lost |-> FALSE,
     name |-> << >>, enumOk |-> FALSE, named |-> {},
     entries |-> << >>, free |-> {}, closes |-> 0, from |-> None, slots |-> {},
     snap |-> << >>]

\* a thread that is in no call
NoThread ==
    [pc |-> "idle", op |-> "none", acc |-> 0, addr |-> 0, seen |-> 0, pid |-> 0,
     used |-> 0, open |-> FALSE, ok |-> FALSE]

NoHeld == [kind |-> "none", val |-> None, lost |-> FALSE]

SetWorld(W) ==
    /\ hProcess' = W.hProcess
    /\ processId' = W.processId
    /\ handles' = W.handles

\* the handles a step asked the OS to release
Released(W) == { h \in Handles : W.handles[h].closes > handles[h].closes }

\* MemoryPhantom::MemoryPhantom()
DefaultCtor(a) ==
    /\ alive[a] # "live"
    /\ alive' = [alive EXCEPT ![a] = "live"]
    /\ hProcess' = [hProcess EXCEPT ![a] = 0]
    /\ processId' = [processId EXCEPT ![a] = 0]
    /\ hist' = [hist EXCEPT ![a] = "never"]
    /\ last' = [NoCall EXCEPT !.op = "DefaultCtor", !.acc = a]
    /\ UNCHANGED << handles, envVars, callerVars >>

\* MemoryPhantom::MemoryPhantom(DWORD pid, DWORD accessRights)
PidCtor(a, pid, grant) ==
    /\ alive[a] # "live"
    /\ LET W0 == [World EXCEPT !.hProcess[a] = 0, !.processId[a] = 0]
           W  == AttachW(W0, a, pid, grant)
       IN  /\ SetWorld(W)
           /\ hist' = [hist EXCEPT ![a] = IF W.hProcess[a] # 0 THEN "attached" ELSE "failed"]
           /\ last' = [NoCall EXCEPT !.op = "PidCtor", !.acc = a, !.pid = pid,
                                     !.grant = grant, !.ret = W.hProcess[a] # 0,
                                     !.rel = Released(W)]
    /\ alive' = [alive EXCEPT ![a] = "live"]
    /\ UNCHANGED << envVars, callerVars >>

\* MemoryPhantom::Attach
Attach(a, pid, grant) ==
    /\ alive[a] = "live"
    /\ LET W == AttachW(World, a, pid, grant)
       IN  /\ SetWorld(W)
           /\ hist' = [hist EXCEPT ![a] = IF W.hProcess[a] # 0 THEN "attached" ELSE "failed"]
           /\ last' = [NoCall EXCEPT !.op = "Attach", !.acc = a, !.pid = pid,
                                     !.grant = grant,
                                     !.ret = AttachRet(World, a, pid, grant),
                                     !.preH = hProcess[a], !.prePid = processId[a],
                                     !.how = hist[a], !.rel = Released(W)]
    /\ UNCHANGED << alive, envVars, callerVars >>

\* MemoryPhantom::Detach
Detach(a) ==
    /\ alive[a] = "live"
    /\ LET W == DetachW(World, a)
       IN  /\ SetWorld(W)
           /\ last' = [NoCall EXCEPT !.op = "Detach", !.acc = a,
                                     !.preH = hProcess[a], !.prePid = processId[a],
                                     !.how = hist[a], !.rel = Released(W)]
    /\ hist' = [hist EXCEPT ![a] = "detached"]
    /\ UNCHANGED << alive, envVars, callerVars >>

\* MemoryPhantom::~MemoryPhantom
Dtor(a) ==
    /\ alive[a] = "live"
    /\ LET W == DetachW(World, a)
       IN  /\ SetWorld(W)
           /\ last' = [NoCall EXCEPT !.op = "Dtor", !.acc = a,
                                     !.preH = hProcess[a], !.prePid = processId[a],
                                     !.how = hist[a], !.rel = Released(W)]
    /\ alive' = [alive EXCEPT ![a] = "dead"]
    /\ hist' = [hist EXCEPT ![a] = "detached"]
    /\ UNCHANGED << envVars, callerVars >>

\* how the two objects of a move came to their attachment afterwards
MovedHist(dst, src) ==
    [hist EXCEPT ![dst] = IF hProcess[src] # 0 THEN "moved-in" ELSE hist[src],
                 ![src] = "moved"]

\* MemoryPhantom::MemoryPhantom(MemoryPhantom&& other)
MoveCtor(dst, src) ==
    /\ alive[dst] # "live"
    /\ alive[src] = "live"
    /\ LET W == MoveCtorW(World, dst, src)
       IN  /\ SetWorld(W)
           /\ last' = [NoCall EXCEPT !.op = "MoveCtor", !.acc = dst, !.src = src,
                                     !.preH = hProcess[src], !.prePid = processId[src],
                                     !.how = hist[src], !.rel = Released(W)]
    /\ alive' = [alive EXCEPT ![dst] = "live"]
    /\ hist' = MovedHist(dst, src)
    /\ UNCHANGED << envVars, callerVars >>

\* MemoryPhantom::operator=(MemoryPhantom&& other), self-assignment included
MoveAssign(dst, src) ==
    /\ alive[dst] = "live"
    /\ alive[src] = "live"
    /\ LET W == MoveAssignW(World, dst, src)
       IN  /\ SetWorld(W)
           /\ last' = [NoCall EXCEPT !.op = "MoveAssign", !.acc = dst, !.src = src,
                                     !.preH = hProcess[src], !.prePid = processId[src],
                                     !.how = hist[src], !.rel = Released(W)]
    /\ hist' = IF dst # src THEN MovedHist(dst, src) ELSE hist
    /\ UNCHANGED << alive, envVars, callerVars >>

\* auto phantom = MemoryPhantom::CreateFromName(name): the accessor returned, if
\* one is, is dst; the local phantom tmp is gone when the call returns
CreateFromNameCall(dst, tmp, name, snapOk, entries, grant) ==
    /\ dst # tmp
    /\ alive[dst] # "live"
    /\ alive[tmp] # "live"
    /\ LET r == CreateFromName(World, dst, tmp, name, snapOk, entries, grant)
       IN  /\ SetWorld(r.world)
           /\ alive' = [alive EXCEPT ![dst] = IF r.found THEN "live" ELSE @,
                                     ![tmp] = IF snapOk /\ r.hit # 0 THEN "dead" ELSE @]
           /\ hist' = [hist EXCEPT ![dst] = IF r.found THEN "moved-in" ELSE @,
                                   ![tmp] = IF snapOk /\ r.hit # 0 THEN "detached" ELSE @]
           /\ last' = [NoCall EXCEPT !.op = "CreateFromName", !.acc = dst, !.src = tmp,
                                     !.name = name, !.enumOk = snapOk,
                                     !.entries = entries, !.grant = grant,
                                     !.free = FreeHandles(handles),
                                     !.ret = r.found, !.closes = r.closes,
                                     !.snap = SnapshotCalls(name, snapOk, entries),
                                     !.rel = Released(r.world)]
    /\ UNCHANGED << envVars, callerVars >>

\* the answers the OS may give to the transfer a read asks for, if it asks
ReadAnswers(a, T, shape, base, off, len) ==
    IF ReadShape(hProcess[a], T, shape, base, off, len, NoOs, mem).issued
    THEN OsOutcomes(handles[hProcess[a]].st = "open", Mapped,
                    EffAddr(shape, base, off)[1], TransferSize(T, len))
    ELSE {NoOs}

\* the record of a read
ReadRecord(a, T, shape, base, off, len, os) ==
    LET r == ReadShape(hProcess[a], T, shape, base, off, len, os, mem)
    IN  [NoCall EXCEPT !.op = "Read", !.acc = a, !.T = T,
                       !.shape = shape, !.base = base, !.off = off, !.len = len,
                       !.eff = EffAddr(shape, base, off), !.preH = hProcess[a],
                       !.how = hist[a], !.issued = r.issued, !.os = os,
                       !.has = r.has, !.val = r.val]

\* a read of a T through accessor a: Read<Name>(base[, off][, len])
ReadCall(a, T, shape, base, off, len) ==
    /\ alive[a] = "live"
    /\ \E os \in ReadAnswers(a, T, shape, base, off, len) :
          last' = ReadRecord(a, T, shape, base, off, len, os)
    /\ UNCHANGED << objVars, envVars, callerVars >>

\* Read<T>(base[, off]) through accessor a for a T without a constructor
ReadGenericCall(a, T, shape, base, off) ==
    /\ alive[a] = "live"
    /\ \E junk \in JunkVals(T) :
          \E os \in (IF ReadGenericShape(hProcess[a], T, shape, base, off, junk, NoOs, mem).issued
                      THEN OsOutcomes(handles[hProcess[a]].st = "open", Mapped,
                                      EffAddr(shape, base, off)[1], SizeOf(T))
                      ELSE {NoOs}) :
             LET r == ReadGenericShape(hProcess[a], T, shape, base, off, junk, os, mem)
             IN  last' = [NoCall EXCEPT !.op = "ReadGeneric", !.acc = a, !.T = T,
                                       !.shape = shape, !.base = base, !.off = off,
                                       !.eff = EffAddr(shape, base, off),
                                       !.preH = hProcess[a], !.how = hist[a],
                                       !.issued = r.issued, !.os = os,
                                       !.has = r.has, !.val = r.val]
    /\ UNCHANGED << objVars, envVars, callerVars >>

\* the answers the OS may give to the transfer a write asks for, if it asks
WriteAnswers(a, T, shape, base, off, value) ==
    IF WriteShape(hProcess[a], T, shape, base, off, value, NoOs, mem).issued
    THEN OsOutcomes(handles[hProcess[a]].st = "open", writable,
                    EffAddr(shape, base, off)[1], Len(WriteBytesOf(T, value)))
    ELSE {NoOs}

\* the record of a write
WriteRecord(a, T, shape, base, off, value, os) ==
    LET r == WriteShape(hProcess[a], T, shape, base, off, value, os, mem)
    IN  [NoCall EXCEPT !.op = "Write", !.acc = a, !.T = T,
                       !.shape = shape, !.base = base, !.off = off,
                       !.len = Len(value), !.arg = value,
                       !.eff = EffAddr(shape, base, off), !.preH = hProcess[a],
                       !.how = hist[a], !.issued = r.issued, !.os = os,
                       !.ret = r.ret, !.wrote = (r.mem # mem)]

\* a write of a T through accessor a: Write<Name>(base[, off], value)
WriteCall(a, T, shape, base, off, value) ==
    /\ alive[a] = "live"
    /\ \E os \in WriteAnswers(a, T, shape, base, off, value) :
          /\ mem' = WriteShape(hProcess[a], T, shape, base, off, value, os, mem).mem
          /\ last' = WriteRecord(a, T, shape, base, off, value, os)
    /\ UNCHANGED << objVars, writable, modules, callerVars >>

\* the read that immediately follows a write, of the same type through the same
\* arguments; the record keeps the value written and what the write returned
ReadBack(a) ==
    /\ alive[a] = "live"
    /\ last.op = "Write"
    /\ last.acc = a
    /\ \E os \in ReadAnswers(a, last.T, last.shape, last.base, last.off, last.len) :
          last' = [ReadRecord(a, last.T, last.shape, last.base, last.off, last.len, os)
                      EXCEPT !.op = "ReadBack", !.arg = last.arg, !.ret = last.ret]
    /\ UNCHANGED << objVars, envVars, callerVars >>

\* FindModuleBase(name) through accessor a
FindCall(a, name, enumOk, named) ==
    /\ alive[a] = "live"
    /\ \E junk \in JunkSlots(modules) :
          LET r == FindModuleBase(hProcess[a], name, modules, enumOk, named, junk)
          IN  last' = [NoCall EXCEPT !.op = "FindModuleBase", !.acc = a,
                                    !.preH = hProcess[a], !.how = hist[a],
                                    !.name = name, !.enumOk = enumOk, !.named = named,
                                    !.slots = SlotsRead(hProcess[a], name, modules,
                                                        enumOk, named, junk),
                                    !.has = r # None, !.val = r]
    /\ UNCHANGED << objVars, envVars, callerVars >>

\* the target loads or unloads modules: its module list becomes l
TargetLoads(l) ==
    /\ modules # l
    /\ modules' = l
    /\ UNCHANGED << objVars, mem, writable, callerVars, last >>

\* whether the transfer of a read came through in full
ReadInFull(rec) ==
    rec.issued /\ rec.os.ok /\ rec.os.cnt = TransferSize(rec.T, rec.len)

\* WriteBytes(b, data) with data what the ReadBytes just made returned: the second
\* step of a copy. The record keeps the length asked of the read, where it read
\* from and whether its transfer fell short
CopyWrite(a, b) ==
    /\ alive[a] = "live"
    /\ last.op = "Read"
    /\ last.T = "Bytes"
    /\ last.acc = a
    /\ \E os \in WriteAnswers(a, "Bytes", "addr", Some(b), 0, last.val) :
          /\ mem' = WriteShape(hProcess[a], "Bytes", "addr", Some(b), 0, last.val, os, mem).mem
          /\ last' = [WriteRecord(a, "Bytes", "addr", Some(b), 0, last.val, os)
                         EXCEPT !.op = "CopyWrite", !.len = last.len, !.from = last.eff,
                                !.lost = ~ReadInFull(last)]
    /\ UNCHANGED << objVars, writable, modules, callerVars >>

\* ReadBytes(b, L) right after the WriteBytes(b, data) of a copy: the third step.
\* The record keeps the bytes first read and what the write returned
CopyReadBack(a) ==
    /\ alive[a] = "live"
    /\ last.op = "CopyWrite"
    /\ last.acc = a
    /\ \E os \in ReadAnswers(a, "Bytes", "addr", last.base, 0, last.len) :
          last' = [ReadRecord(a, "Bytes", "addr", last.base, 0, last.len, os)
                      EXCEPT !.op = "CopyBack", !.arg = last.arg, !.ret = last.ret,
                             !.from = last.from, !.lost = last.lost]
    /\ UNCHANGED << objVars, envVars, callerVars >>

(***************************************************************************)
(* Calls from several threads. A read, a write or a module lookup takes    *)
(* two steps: the test of hProcess and of the address, then the OS call,   *)
(* which is handed hProcess as it is at that moment. IsActive, GetPID and  *)
(* GetHandle take one.                                                     *)
(***************************************************************************)
\* the calls the threads make: ReadInt, WriteBool(true), FindModuleBase and the
\* three accessors of the attachment
ThreadOps == {"ReadInt", "WriteBool", "FindModuleBase", "IsActive", "GetPID", "GetHandle"}

\* a faulty call: a transfer that fails gives up the attachment
AfterCallDetachOnFailure(W, a, ok) == IF ok THEN W ELSE DetachW(W, a)

\* the accessor's fields after a call that is none of Attach, Detach, move and
\* destruction: every such method is const and assigns no field
AfterCall(W, a, ok) == W

\* thread t enters a call on accessor a: the call's test of hProcess and addr, or
\* the whole of a call that only returns a field
Begin(t, a, op, addr) ==
    /\ alive[a] = "live"
    /\ calls[t].pc = "idle"
    /\ LET seen == hProcess[a]
           passes == CASE op = "ReadInt" ->
                            InternalRead(seen, addr, Zeros(SizeOf("Int")), NoOs, mem).issued
                       [] op = "WriteBool" ->
                            InternalWrite(seen, addr, << 1 >>, NoOs, mem).issued
                       [] op = "FindModuleBase" -> seen # 0
                       [] OTHER -> FALSE
           ok == CASE op = "IsActive" -> IsActive(a)
                   [] op = "GetPID" -> GetPID(a) # 0
                   [] op = "GetHandle" -> GetHandle(a) # 0
                   [] OTHER -> FALSE
       IN  /\ calls' = [calls EXCEPT ![t] =
                          [pc |-> IF passes THEN "guarded" ELSE "done", op |-> op, acc |-> a,
                           addr |-> addr, seen |-> seen, pid |-> processId[a],
                           used |-> 0, open |-> FALSE, ok |-> ok]]
           /\ SetWorld(AfterCall(World, a, passes \/ ok))
    /\ UNCHANGED << alive, hist, envVars, held, policies, last >>

\* the OS call of thread t's call: ReadProcessMemory, WriteProcessMemory or
\* EnumProcessModules with hProcess as it is now
Transfer(t) ==
    /\ calls[t].pc = "guarded"
    /\ LET c == calls[t]
           h == hProcess[c.acc]
           open == h # 0 /\ handles[h].st = "open"
           done(ok) ==
               /\ calls' = [calls EXCEPT ![t] = [c EXCEPT !.pc = "done", !.used = h,
                                                          !.open = open, !.ok = ok]]
               /\ SetWorld(AfterCall(World, c.acc, ok))
       IN  CASE c.op = "ReadInt" ->
                  \E os \in OsOutcomes(open, Mapped, c.addr, SizeOf("Int")) :
                     /\ done(InternalRead(h, c.addr, Zeros(SizeOf("Int")), os, mem).ok)
                     /\ mem' = mem
             [] c.op = "WriteBool" ->
                  \E os \in OsOutcomes(open, writable, c.addr, SizeOf("Bool")) :
                     LET r == InternalWrite(h, c.addr, << 1 >>, os, mem)
                     IN  done(r.ret) /\ mem' = r.mem
             [] c.op = "FindModuleBase" ->
                  \E enumOk \in BOOLEAN, junk \in JunkSlots(modules) :
                     /\ done(FindModuleBase(h, << "g", ".", "E" >>, modules, enumOk /\ open,
                                            1..Len(modules), junk) # None)
                     /\ mem' = mem
    /\ UNCHANGED << alive, hist, writable, modules, held, policies, last >>

\* thread t's call returns
End(t) ==
    /\ calls[t].pc = "done"
    /\ calls' = [calls EXCEPT ![t] = NoThread]
    /\ UNCHANGED << objVars, envVars, held, policies, last >>

\* no thread is in a call
Quiet == \A t \in Threads : calls[t].pc = "idle"

(***************************************************************************)
(* Pointer chains: the caller resolves a module base, follows pointers     *)
(* with ReadPtr and reads a value at the end, feeding each step's result   *)
(* to the next. held.lost remembers that a step of the chain has failed.   *)
(***************************************************************************)
\* auto base = FindModuleBase(name)
ChainFind(a, name, enumOk, named) ==
    /\ alive[a] = "live"
    /\ \E junk \in JunkSlots(modules) :
       LET r == FindModuleBase(hProcess[a], name, modules, enumOk, named, junk)
       IN  /\ held' = [kind |-> "opt", val |-> r, lost |-> r = None]
           /\ last' = [NoCall EXCEPT !.op = "FindModuleBase", !.acc = a,
                                     !.preH = hProcess[a],
                                     !.has = r # None, !.val = r]
    /\ UNCHANGED << objVars, envVars, policies, calls >>

\* the overloads that take what the caller holds: an optional or a uintptr_t
HeldShapes == IF held.kind = "opt" THEN {"opt", "opt_off"} ELSE {"addr", "addr_off"}

\* auto p = ReadPtr(held) or ReadPtr(held, off): the result is a plain uintptr_t
ChainReadPtr(a, shape, off) ==
    /\ alive[a] = "live"
    /\ held.kind # "none"
    /\ shape \in HeldShapes
    /\ \E os \in ReadAnswers(a, "Ptr", shape, held.val, off, 0) :
          LET rec == ReadRecord(a, "Ptr", shape, held.val, off, 0, os)
          IN  /\ last' = [rec EXCEPT !.lost = held.lost]
              /\ held' = [kind |-> "ptr", val |-> Some(PtrValue(rec.val)),
                          lost |-> held.lost \/ ~ReadInFull(rec)]
    /\ UNCHANGED << objVars, envVars, policies, calls >>

\* Read<Name>(held) or Read<Name>(held, off): the read at the end of the chain
ChainRead(a, T, shape, off) ==
    /\ alive[a] = "live"
    /\ held.kind # "none"
    /\ shape \in HeldShapes
    /\ \E os \in ReadAnswers(a, T, shape, held.val, off, 0) :
          last' = [ReadRecord(a, T, shape, held.val, off, 0, os) EXCEPT !.lost = held.lost]
    /\ held' = NoHeld
    /\ UNCHANGED << objVars, envVars, policies, calls >>

(***************************************************************************)
(* The caller.                                                             *)
(***************************************************************************)
\* control is back with the caller, which drops the result of the call
Return ==
    /\ last.op # "none"
    /\ last' = NoCall
    /\ UNCHANGED << objVars, envVars, callerVars >>

\* the caller notes how a read that failed told it so: by an empty optional
\* ("absent") or by a value of the type ("default")
NotePolicy ==
    /\ last.op = "Read"
    /\ ~ReadInFull(last)
    /\ policies' = policies \cup {IF last.has THEN "default" ELSE "absent"}
    /\ last' = NoCall
    /\ UNCHANGED << objVars, envVars, held, calls >>

Idle == last.op = "none"

\* the values written: NumVals of each fixed-size type, strings and blocks of every
\* length up to MaxLen
FixedVals(T) ==
    IF T = "Bool" THEN { << v % 2 >> : v \in 1..NumVals }
    ELSE { [i \in 1..SizeOf(T) |-> 3 * v + (i % 2)] : v \in 1..NumVals }
VarVals(T) ==
    IF T = "WString" THEN { [i \in 1..n |-> 260 + i] : n \in 0..MaxLen }
    ELSE { [i \in 1..n |-> 4 + i] : n \in 0..MaxLen }
ValuesOf(T) == IF T \in VarTypes THEN VarVals(T) ELSE FixedVals(T)

\* the process ids the single-accessor runs attach to: one that names no process,
\* one that does
OnePids == {0, 1}

\* the addresses and offsets given: null, the second mapped byte (an offset of -1
\* leads to the first) and the last address (an offset of 1 wraps to null)
Bases == {0, MapBase + 1, AddrSpace - 1}
Offs == {-1, 0, 1}
\* shape, address and offset of a call
AddrArgs ==
    { [shape |-> "addr", base |-> Some(b), off |-> 0] : b \in Bases }
    \cup { [shape |-> "addr_off", base |-> Some(b), off |-> o] : b \in Bases, o \in Offs }
    \cup { [shape |-> "opt", base |-> Some(b), off |-> 0] : b \in Bases }
    \cup { [shape |-> "opt", base |-> None, off |-> 0] : b \in {0} }
    \cup { [shape |-> "opt_off", base |-> Some(b), off |-> o] : b \in Bases, o \in Offs }
    \cup { [shape |-> "opt_off", base |-> None, off |-> o] : o \in Offs }
LensOf(T) == IF T \in VarTypes THEN 0..MaxLen ELSE {0}

(***************************************************************************)
(* Spec: the life of NumAcc accessors, with reads and writes between.      *)
(***************************************************************************)
InitObjects(born) ==
    /\ alive = [a \in Acc |-> IF a \in born THEN "live" ELSE "unborn"]
    /\ hProcess = [a \in Acc |-> 0]
    /\ processId = [a \in Acc |-> 0]
    /\ handles = [h \in Handles |-> [st |-> "free", pid |-> 0, closes |-> 0]]
    /\ hist = [a \in Acc |-> "never"]
    /\ held = NoHeld
    /\ policies = {}
    /\ calls = [t \in Threads |-> NoThread]
    /\ last = NoCall

Init ==
    /\ mem = [x \in Mapped |-> InitByte(x)]
    /\ modules = TargetModules
    /\ writable = Mapped
    /\ InitObjects({})

Next ==
    \/ Idle /\ \E a \in Acc : DefaultCtor(a)
    \/ Idle /\ \E a \in Acc, pid \in Pids, grant \in BOOLEAN : PidCtor(a, pid, grant)
    \/ Idle /\ \E a \in Acc, pid \in Pids, grant \in BOOLEAN : Attach(a, pid, grant)
    \/ Idle /\ \E a \in Acc : Detach(a)
    \/ Idle /\ \E a \in Acc : Dtor(a)
    \/ Idle /\ \E dst \in Acc, src \in Acc : MoveCtor(dst, src)
    \/ Idle /\ \E dst \in Acc, src \in Acc : MoveAssign(dst, src)
    \/ Idle /\ \E a \in Acc, b \in {0, MapBase} : ReadCall(a, "Int", "addr", Some(b), 0, 0)
    \/ Idle /\ \E a \in Acc, b \in {0, MapBase} :
          WriteCall(a, "Bool", "addr", Some(b), 0, << 1 >>)
    \/ Return

Spec == Init /\ [][Next]_vars

(***************************************************************************)
(* SpecXfer: every read and write, through every address shape, on an      *)
(* accessor that is attached, detached, re-attached and moved from. The    *)
(* target protects all but its first mapped byte against writes.           *)
(***************************************************************************)
InitXfer ==
    /\ mem = [x \in Mapped |-> InitByte(x)]
    /\ modules = TargetModules
    /\ writable = {MapBase}
    /\ InitObjects({1})

NextXfer ==
    \/ Idle /\ \E pid \in OnePids : Attach(1, pid, TRUE)
    \/ Idle /\ Detach(1)
    \/ Idle /\ MoveCtor(2, 1)
    \/ Idle /\ \E T \in Types, x \in AddrArgs, len \in 0..MaxLen :
          len \in LensOf(T) /\ ReadCall(1, T, x.shape, x.base, x.off, len)
    \/ Idle /\ \E T \in Types, x \in AddrArgs :
          \E v \in ValuesOf(T) : WriteCall(1, T, x.shape, x.base, x.off, v)
    \/ Idle /\ \E T \in PodTypes, x \in AddrArgs :
          ReadGenericCall(1, T, x.shape, x.base, x.off)
    \/ Return

SpecXfer == InitXfer /\ [][NextXfer]_vars

(***************************************************************************)
(* SpecChain: pointer chains through one accessor.                         *)
(***************************************************************************)
NextChain ==
    \/ Idle /\ \E pid \in OnePids : Attach(1, pid, TRUE)
    \/ Idle /\ \E name \in ModuleNames, enumOk \in BOOLEAN,
          named \in SUBSET (1..Len(TargetModules)) :
          ChainFind(1, name, enumOk, named)
    \/ Idle /\ \E shape \in Shapes, off \in Offs : ChainReadPtr(1, shape, off)
    \/ Idle /\ \E T \in {"Int", "Byte", "Matrix", "Bytes"}, shape \in Shapes, off \in Offs :
          ChainRead(1, T, shape, off)
    \/ Return

SpecChain == InitXfer /\ [][NextChain]_vars

(***************************************************************************)
(* SpecMod: module lookups through one accessor while the target loads and *)
(* unloads modules.                                                        *)
(***************************************************************************)
NextMod ==
    \/ Idle /\ \E pid \in OnePids : Attach(1, pid, TRUE)
    \/ Idle /\ Detach(1)
    \/ Idle /\ \E l \in ModuleLists : TargetLoads(l)
    \/ Idle /\ \E name \in ModuleNames, enumOk \in BOOLEAN :
          \E named \in SUBSET (1..Len(modules)) : FindCall(1, name, enumOk, named)
    \/ Return

SpecMod == InitXfer /\ [][NextMod]_vars

(***************************************************************************)
(* SpecCreate: accessors made by CreateFromName from every snapshot, then  *)
(* detached or destroyed.                                                  *)
(***************************************************************************)
NextCreate ==
    \/ Idle /\ \E name \in ProcessNames, snapOk \in BOOLEAN, grant \in BOOLEAN :
          \E entries \in Snapshots : CreateFromNameCall(1, 2, name, snapOk, entries, grant)
    \/ Idle /\ Detach(1)
    \/ Idle /\ Dtor(1)
    \/ Return

SpecCreate == Init /\ [][NextCreate]_vars

(***************************************************************************)
(* SpecStr: strings read from and written to a target whose first bytes    *)
(* hold every arrangement of zero and non-zero bytes. A run attaches, any  *)
(* number of times, then makes one read or write.                          *)
(***************************************************************************)
\* the bytes at the start of the mapped range that vary: those of MaxLen + 1 wide
\* characters
StrCells == MapBase..(MapBase + (MaxLen + 1) * SizeOf("WChar") - 1)

InitStr ==
    /\ \E f \in [StrCells -> {0, 1}] :
          mem = [x \in Mapped |-> IF x \in StrCells THEN f[x] ELSE InitByte(x)]
    /\ writable = Mapped
    /\ modules = TargetModules
    /\ InitObjects({1})

NextStr ==
    \/ Idle /\ \E pid \in OnePids : Attach(1, pid, TRUE)
    \/ Idle /\ \E T \in {"String", "WString"}, b \in {MapBase, MapBase + 1}, len \in 0..MaxLen :
          ReadCall(1, T, "addr", Some(b), 0, len)
    \/ Idle /\ \E T \in {"String", "WString"}, b \in {MapBase, MapBase + 1} :
          \E v \in VarVals(T) : WriteCall(1, T, "addr", Some(b), 0, v)
    \/ last.op = "Attach" /\ Return

SpecStr == InitStr /\ [][NextStr]_vars

(***************************************************************************)
(* SpecPolicy: the caller reads every type at a null and at a mapped       *)
(* address, attached or not, and notes how each failure is signalled.      *)
(***************************************************************************)
NextPolicy ==
    \/ Idle /\ \E pid \in OnePids : Attach(1, pid, TRUE)
    \/ Idle /\ Detach(1)
    \/ Idle /\ \E T \in Types, b \in {0, MapBase}, len \in 0..MaxLen :
          len \in LensOf(T) /\ ReadCall(1, T, "addr", Some(b), 0, len)
    \/ NotePolicy
    \/ Return

SpecPolicy == InitXfer /\ [][NextPolicy]_vars

(***************************************************************************)
(* SpecRT: a value of every fixed-size type is written to a target whose   *)
(* mapped memory is all writable, and read back at once. A run attaches,   *)
(* any number of times, then makes one write and the read after it.        *)
(***************************************************************************)
InitRT ==
    /\ mem = [x \in Mapped |-> InitByte(x)]
    /\ modules = TargetModules
    /\ writable = Mapped
    /\ InitObjects({1})

\* the addresses written: null, three mapped ones, the last (unmapped) one
AddrsRT == {0, MapBase, MapBase + 1, MapBase + 2, AddrSpace - 1}

NextRT ==
    \/ Idle /\ \E pid \in OnePids : Attach(1, pid, TRUE)
    \/ Idle /\ \E T \in FixedTypes, b \in AddrsRT :
          \E v \in FixedVals(T) : WriteCall(1, T, "addr", Some(b), 0, v)
    \/ ReadBack(1)
    \/ last.op = "Attach" /\ Return

SpecRT == InitRT /\ [][NextRT]_vars

(***************************************************************************)
(* SpecCopy: blocks of bytes copied within the target: ReadBytes at one    *)
(* address, WriteBytes of the result at another, ReadBytes there.          *)
(***************************************************************************)
\* where the blocks are read from and where they are copied to: next to the source
\* (the ranges overlap), onto its end, and clear of it
CopyFrom == {MapBase + 2, MapBase + 3}
CopyTo == {MapBase + 1, MapBase + 4, MapBase + 8}
\* the lengths copied: none, one byte, the longest block of the other runs, and 16
CopyLens == {0, 1, MaxLen, 16}

NextCopy ==
    \/ Idle /\ \E pid \in OnePids : Attach(1, pid, TRUE)
    \/ Idle /\ \E a \in CopyFrom, len \in CopyLens :
          ReadCall(1, "Bytes", "addr", Some(a), 0, len)
    \/ \E b \in CopyTo : CopyWrite(1, b)
    \/ CopyReadBack(1)
    \/ last.op = "Attach" /\ Return

SpecCopy == InitRT /\ [][NextCopy]_vars

(***************************************************************************)
(* SpecConc: NumThreads threads call into one accessor in every            *)
(* interleaving; it is attached and detached only while none is in a call. *)
(***************************************************************************)
NextConc ==
    \/ Idle /\ Quiet /\ \E pid \in OnePids : Attach(1, pid, TRUE)
    \/ Idle /\ Quiet /\ Detach(1)
    \/ Idle /\ \E t \in Threads, op \in ThreadOps, addr \in {0, MapBase} : Begin(t, 1, op, addr)
    \/ \E t \in Threads : Transfer(t)
    \/ \E t \in Threads : End(t)
    \/ Return

SpecConc == InitRT /\ [][NextConc]_vars

(***************************************************************************)
(* The claims of the specification.                                        *)
(***************************************************************************)
\* the result the specification designates for a read that fails: 0, false, a zero
\* vector, no matrix, an empty string, an empty byte vector
FailureResult(T) ==
    CASE T = "Matrix" -> [has |-> FALSE, val |-> << >>]
      [] T \in VarTypes -> [has |-> TRUE, val |-> << >>]
      [] OTHER -> [has |-> TRUE, val |-> Zeros(SizeOf(T))]

\* what the last call, a read, gave back
Result == [has |-> last.has, val |-> last.val]

IsCall == last.op \in {"Read", "Write"}

\* the bytes the last call asked the OS to transfer
Requested ==
    IF last.op = "Write" THEN Len(WriteBytesOf(last.T, last.arg))
    ELSE TransferSize(last.T, last.len)

\* C1: a read or write on an accessor that is not attached, or whose effective
\* address is zero, issues no OS transfer, leaves the target's memory unchanged and
\* returns its failure result: the default value for a read, false for a write.
C1_InvalidCallFails ==
    (IsCall /\ (last.preH = 0 \/ last.eff = Some(0))) =>
        /\ ~last.issued
        /\ ~last.wrote
        /\ last.op = "Read" => Result = FailureResult(last.T)
        /\ last.op = "Write" => ~last.ret

\* C2: once a step of a pointer chain has failed, every later step is given an
\* unresolved address, never zero or zero plus an offset, and issues no OS transfer.
C2_UnresolvedStaysUnresolved ==
    (last.op = "Read" /\ last.lost) => (last.eff = None /\ ~last.issued)

\* C3: a read or write given an unresolved optional address, with or without an
\* offset, issues no OS transfer; the read returns the designated failure result,
\* the write returns false and changes nothing.
C3_UnresolvedShortCircuits ==
    (IsCall /\ last.shape \in {"opt", "opt_off"} /\ last.base = None) =>
        /\ ~last.issued
        /\ ~last.wrote
        /\ last.op = "Read" => Result = FailureResult(last.T)
        /\ last.op = "Write" => ~last.ret

\* a read of a matrix through an unresolved address plus a non-zero offset, on an
\* attached accessor
C3_Witness ==
    /\ last.op = "Read"
    /\ last.T = "Matrix"
    /\ last.shape = "opt_off"
    /\ last.base = None
    /\ last.off # 0
    /\ last.preH # 0
    /\ handles[last.preH].st = "open"

\* the accessors holding handle h
Holders(h) == { a \in Acc : hProcess[a] = h }

\* C4: every handle a successful Attach obtained is released exactly once: never
\* twice, never used after its release, held by at most one accessor, and held by
\* a live accessor for as long as it is open (so none is open once all are destroyed).
C4_ReleasedExactlyOnce ==
    /\ \A h \in Handles :
          /\ handles[h].closes <= 1
          /\ handles[h].st = "closed" => handles[h].closes = 1
          /\ handles[h].st = "open" =>
                /\ handles[h].closes = 0
                /\ Cardinality(Holders(h)) = 1
                /\ \A a \in Holders(h) : alive[a] = "live"
          /\ handles[h].st # "open" => Holders(h) = {}
    /\ (IsCall /\ last.issued) => handles[last.preH].st = "open"
    /\ \A h \in last.rel : handles[h].st = "closed"

\* every handle has been obtained and released, the last of them by the destruction
\* of an accessor that got it by a move, and every accessor has been destroyed
C4_Witness ==
    /\ Cardinality({ h \in Handles : handles[h].st = "closed" }) = MaxHandles
    /\ \A a \in Acc : alive[a] = "dead"
    /\ last.op = "Dtor"
    /\ last.how = "moved-in"
    /\ last.rel # {}

\* C5: a move from an attached accessor to another leaves the destination active
\* with the source's handle and process id and the source inactive with process id
\* 0, and releases nothing; detaching or destroying the moved-from source later
\* releases nothing either, so the destination's handle stays open.
C5_MoveTransfersAttachment ==
    /\ (last.op \in {"MoveCtor", "MoveAssign"} /\ last.acc # last.src /\ last.preH # 0) =>
          /\ IsActive(last.acc)
          /\ GetHandle(last.acc) = last.preH
          /\ GetPID(last.acc) = last.prePid
          /\ ~IsActive(last.src)
          /\ GetPID(last.src) = 0
          /\ last.preH \notin last.rel
          /\ handles[last.preH].st = "open"
    /\ (last.op \in {"Detach", "Dtor"} /\ last.how = "moved") =>
          /\ last.rel = {}
          /\ \A a \in Acc : hist[a] = "moved-in" =>
                IsActive(a) /\ handles[hProcess[a]].st = "open"

\* the source of a move from an attached accessor has been destroyed while the
\* destination still holds the handle
C5_Witness ==
    /\ last.op = "Dtor"
    /\ last.how = "moved"
    /\ \E a \in Acc : a # last.acc /\ hist[a] = "moved-in" /\ IsActive(a)

\* C6: an Attach the OS refuses (unknown process id or access denied) returns
\* false and leaves the accessor as a fresh one: null handle, process id 0, inactive.
C6_RefusedAttachLeavesFresh ==
    (last.op = "Attach" /\ ~(last.pid \in 1..NumProcs /\ last.grant)) =>
        /\ ~last.ret
        /\ GetHandle(last.acc) = 0
        /\ GetPID(last.acc) = 0
        /\ ~IsActive(last.acc)

\* an attached accessor was refused access to a process that exists
C6_Witness ==
    /\ last.op = "Attach"
    /\ last.pid \in 1..NumProcs
    /\ ~last.grant
    /\ last.preH # 0
    /\ last.prePid # 0

\* C7: every read signals its failure under one policy: all by a default value or
\* all by an explicit no-value result.
C7_OneFailurePolicy == Cardinality(policies) <= 1

\* C8: a transfer of fewer bytes than requested is a failure, also when the OS call
\* reports success: the read returns its failure result, the write returns false.
C8_ShortCountIsFailure ==
    (IsCall /\ last.issued /\ last.os.cnt < Requested) =>
        /\ last.op = "Read" => Result = FailureResult(last.T)
        /\ last.op = "Write" => ~last.ret

\* the OS transferred every byte the last call asked for
InFull == last.issued /\ last.os.ok /\ last.os.cnt = Requested

\* C9: on an attached accessor, at a non-zero address whose memory is accessible,
\* the write of a value of a fixed-size type returns true and the read that
\* immediately follows yields that value.
C9_RoundTrip ==
    /\ (last.op = "Write" /\ InFull) => last.ret
    /\ (last.op = "ReadBack" /\ last.ret /\ InFull) => (last.has /\ last.val = last.arg)

\* a matrix written in full has been read back in full
C9_Witness ==
    /\ last.op = "ReadBack"
    /\ last.T = "Matrix"
    /\ last.ret
    /\ InFull
    /\ last.eff = Some(MapBase + 1)

\* C10: a read or write at (a, off) has the result and the effect of the direct one
\* at a' = (a + off) mod 2^w; a negative offset addresses a - |off|; a' = 0 is
\* refused without an OS transfer.
C10_OffsetIsDirectAtSum ==
    [][ (last'.op \in {"Read", "Write"} /\ last'.shape \in {"addr_off", "opt_off"}
            /\ last'.base # None) =>
          LET c == last'
              a2 == (c.base[1] + c.off) % AddrSpace
              h == hProcess[c.acc]
              rd == ReadAt(h, c.T, a2, c.len, c.os, mem)
              wr == WriteAt(h, c.T, a2, c.arg, c.os, mem)
          IN  /\ c.eff = Some(a2)
              /\ (c.off < 0 /\ c.base[1] >= -c.off) => a2 = c.base[1] - (-c.off)
              /\ a2 = 0 => ~c.issued
              /\ c.op = "Read" =>
                    /\ c.issued = rd.issued
                    /\ c.has = rd.has
                    /\ c.val = rd.val
                    /\ mem' = mem
              /\ c.op = "Write" =>
                    /\ c.issued = wr.issued
                    /\ c.ret = wr.ret
                    /\ mem' = wr.mem
      ]_vars

\* a write through a negative offset has changed the first mapped byte
C10_Witness ==
    /\ last.op = "Write"
    /\ last.shape = "addr_off"
    /\ last.off < 0
    /\ last.eff = Some(MapBase)
    /\ last.ret
    /\ last.wrote

\* C11: a string or byte-range transfer of length zero (ReadBytes, ReadString,
\* ReadWString with length 0; WriteBytes, WriteString, WriteWString with empty data)
\* issues no OS transfer and changes nothing, also on an attached accessor at a
\* valid address: the read returns an empty result, the write returns false.
C11_ZeroLengthFails ==
    (IsCall /\ last.T \in VarTypes /\ last.len = 0) =>
        /\ ~last.issued
        /\ ~last.wrote
        /\ last.op = "Read" => Result = [has |-> TRUE, val |-> << >>]
        /\ last.op = "Write" => ~last.ret

\* an empty wide string was written through an open handle at the writable address
C11_Witness ==
    /\ last.op = "Write"
    /\ last.T = "WString"
    /\ last.arg = << >>
    /\ last.preH # 0
    /\ handles[last.preH].st = "open"
    /\ last.eff = Some(MapBase)
    /\ ~last.ret

\* the modules of the list whose base file name, as the OS gives it, is the name
\* the last lookup asked for
Matching == { i \in 1..Len(modules) :
                i \in last.named /\ StrIEq(BaseName(modules[i].path), last.name) }

\* C12: FindModuleBase(name) returns not-found when the accessor is not attached,
\* when the enumeration fails or when no loaded module's base file name equals name
\* case-insensitively; otherwise it returns the load address of the first module of
\* the target's list, as it is at the time of the call, whose base file name does.
C12_FirstMatchingModule ==
    last.op = "FindModuleBase" =>
        IF last.preH = 0 \/ ~last.enumOk \/ Matching = {}
        THEN last.val = None
        ELSE last.val = Some(modules[Min(Matching)].base)

\* the entries of the last call's snapshot whose executable name equals the name
\* asked for, case-insensitively
NamedAlike == { i \in 1..Len(last.entries) :
                  StrIEq(Utf8(last.entries[i].exe), last.name) }

\* whether the OS lets the process of entry i be opened at the last call
Openable(i) ==
    /\ last.entries[i].pid \in 1..NumProcs
    /\ last.grant
    /\ last.free # {}

\* C13: CreateFromName(name) returns an accessor exactly when the snapshot was
\* taken, some entry's executable name equals name case-insensitively and the
\* attach to the first such entry succeeds; the accessor is then attached to that
\* first entry's process, never to a later one's.
C13_FirstMatchingProcess ==
    last.op = "CreateFromName" =>
        /\ last.ret <=> (last.enumOk /\ NamedAlike # {} /\ Openable(Min(NamedAlike)))
        /\ last.ret =>
              /\ alive[last.acc] = "live"
              /\ IsActive(last.acc)
              /\ handles[hProcess[last.acc]].st = "open"
              /\ handles[hProcess[last.acc]].pid = last.entries[Min(NamedAlike)].pid
              /\ GetPID(last.acc) = last.entries[Min(NamedAlike)].pid
        /\ ~last.ret => (alive[last.acc] # "live" /\ last.rel = {} /\ hProcess[last.acc] = 0)

\* two entries bear the name and the first names a process that cannot be opened
\* while the second could be: no accessor is returned
C13_Witness ==
    /\ last.op = "CreateFromName"
    /\ Cardinality(NamedAlike) = 2
    /\ ~Openable(Min(NamedAlike))
    /\ \E i \in NamedAlike : Openable(i)
    /\ ~last.ret

\* C14: for every accessor, IsActive() is true exactly when it holds a non-null
\* handle that has been opened and not released; GetPID() is 0 when IsActive() is
\* false and otherwise the process id given to the Attach that obtained the handle
\* held, also when the handle came by a move.
C14_ActiveIffOpenHandle ==
    \A a \in Acc : alive[a] = "live" =>
        /\ IsActive(a) <=> (GetHandle(a) # 0 /\ handles[GetHandle(a)].st = "open")
        /\ GetHandle(a) # 0 => handles[GetHandle(a)].st = "open"
        /\ ~IsActive(a) => GetPID(a) = 0
        /\ IsActive(a) => GetPID(a) = handles[GetHandle(a)].pid

\* one accessor is active through a handle it got by a move, the accessor it was
\* moved from is alive and inactive, and a handle has been released before
C14_Witness ==
    /\ \E a \in Acc, b \in Acc :
          /\ alive[a] = "live" /\ hist[a] = "moved-in" /\ IsActive(a) /\ GetPID(a) = 1
          /\ alive[b] = "live" /\ hist[b] = "moved" /\ ~IsActive(b)
    /\ \E h \in Handles : handles[h].st = "closed"

\* the n characters the target holds from address a on: bytes for a string, wide
\* characters (two bytes, low byte first) for a wide string
SourceChars(T, a, n) ==
    IF T = "WString"
    THEN [i \in 1..n |-> mem[a + 2 * i - 2] + 256 * mem[a + 2 * i - 1]]
    ELSE [i \in 1..n |-> mem[a + i - 1]]

\* C15: ReadString(addr, n) and ReadWString(addr, n) with n > 0 whose transfer of
\* the n characters succeeded return the source characters before the first
\* terminator among them, or all n when there is none: never more than n
\* characters and nothing from beyond the n characters read.
C15_StringUpToTerminator ==
    (last.op = "Read" /\ last.T \in {"String", "WString"} /\ last.len > 0 /\ InFull) =>
        LET src == SourceChars(last.T, last.eff[1], last.len)
            nul == { i \in 1..last.len : src[i] = 0 }
            k == IF nul = {} THEN last.len ELSE Min(nul) - 1
        IN  /\ last.has
            /\ last.val = SubSeq(src, 1, k)
            /\ Len(last.val) <= last.len

\* a wide string of MaxLen characters was read in full where the terminator is the
\* second character and the first has a zero low byte
C15_Witness ==
    /\ last.op = "Read"
    /\ last.T = "WString"
    /\ last.len = MaxLen
    /\ InFull
    /\ last.val = << 256 >>

\* the byte that the string s of type T, written at address a, puts at address x
StringByteAt(T, s, a, x) ==
    IF T = "WString"
    THEN LET c == s[(x - a) \div 2 + 1]
         IN  IF (x - a) % 2 = 0 THEN c % 256 ELSE c \div 256
    ELSE s[x - a + 1]

\* C16: a successful WriteString / WriteWString of a non-empty string s at address
\* a sets the |s| characters (|s| times the character width in bytes) from a on to
\* the characters of s and leaves every other byte of the target unchanged: no
\* terminator is added, nothing is truncated or padded.
C16_WriteStringSetsExactly ==
    [][ (last'.op = "Write" /\ last'.T \in {"String", "WString"} /\ last'.ret) =>
          LET T == last'.T
              s == last'.arg
              a == last'.eff[1]
              n == Len(s) * (IF T = "WString" THEN SizeOf("WChar") ELSE 1)
          IN  /\ s # << >>
              /\ \A x \in Mapped :
                    mem'[x] = IF x >= a /\ x < a + n THEN StringByteAt(T, s, a, x)
                              ELSE mem[x]
      ]_vars

\* a wide string of MaxLen characters was written in full and the byte after its
\* last character is not zero: no terminator was stored
C16_Witness ==
    /\ last.op = "Write"
    /\ last.T = "WString"
    /\ Len(last.arg) = MaxLen
    /\ last.ret
    /\ last.wrote
    /\ mem[last.eff[1] + MaxLen * SizeOf("WChar")] = 1

\* C17: on an attached accessor with accessible memory, for every length L >= 1,
\* ReadBytes(a, L), then WriteBytes(b, those bytes) at another address b, then
\* ReadBytes(b, L) returns the L bytes first read from a, also when the two ranges
\* overlap; for L = 0 the read returns nothing and the write returns false.
C17_CopyFidelity ==
    /\ (last.op = "CopyBack" /\ last.len >= 1 /\ ~last.lost /\ last.ret /\ InFull) =>
          /\ Len(last.arg) = last.len
          /\ last.val = last.arg
    /\ (last.op = "CopyWrite" /\ last.len >= 1 /\ ~last.lost /\ InFull) => last.ret
    /\ (last.op = "Read" /\ last.T = "Bytes" /\ last.len = 0) =>
          (~last.issued /\ last.val = << >>)
    /\ (last.op = "CopyWrite" /\ last.len = 0) => (~last.issued /\ ~last.ret /\ ~last.wrote)

\* a block of MaxLen bytes with a zero byte in it was copied onto a range that
\* overlaps its source and read back in full
C17_Witness ==
    /\ last.op = "CopyBack"
    /\ last.len = MaxLen
    /\ ~last.lost
    /\ last.ret
    /\ InFull
    /\ \E i \in 1..MaxLen : last.arg[i] = 0
    /\ \E i \in 1..MaxLen : last.arg[i] # 0
    /\ last.eff # last.from
    /\ last.eff[1] - last.from[1] \in (1 - MaxLen)..(MaxLen - 1)

\* C18: while threads are in read, write, FindModuleBase, IsActive, GetPID or
\* GetHandle calls on one attached accessor, and no Attach, Detach, move or
\* destruction runs beside them, no step changes the accessor's handle or process
\* id or releases a handle, and the OS call of each call is handed the handle the
\* call tested, still open.
C18_ConcurrentCallsKeepAttachment ==
    [][ (~Quiet \/ ~Quiet') =>
          /\ hProcess' = hProcess
          /\ processId' = processId
          /\ handles' = handles
          /\ \A t \in Threads :
                (calls'[t].pc = "done" /\ calls[t].pc = "guarded") =>
                    /\ calls'[t].used = calls'[t].seen
                    /\ calls'[t].open
                    /\ GetPID(calls'[t].acc) = calls'[t].pid
      ]_vars

\* one thread has written through the handle while another, having tested the same
\* handle, has its OS call still to make
C18_Witness ==
    \E t \in Threads, u \in Threads :
        /\ calls[t].pc = "done" /\ calls[t].op = "WriteBool" /\ calls[t].ok
        /\ calls[u].pc = "guarded" /\ calls[u].op = "ReadInt"
        /\ calls[u].seen = calls[t].used
        /\ mem[MapBase] = 1

\* C19: when the OS transfer of a scalar read (ReadInt ... ReadPtr, the generic
\* Read<T>) fails or comes up short, also after bytes have reached the destination,
\* the read returns the type's default value, all zero: never bytes partly
\* transferred or a value not initialised.
C19_ScalarReadDefaultsOnFailure ==
    (/\ last.op \in {"Read", "ReadGeneric"}
     /\ last.T \in ScalarTypes \cup GenericTypes \cup PodTypes
     /\ last.issued
     /\ ~(last.os.ok /\ last.os.cnt = SizeOf(last.T))) =>
        (last.has /\ last.val = Zeros(SizeOf(last.T)))

\* C20: ReadBytes(addr, sz) with sz > 0 returns sz bytes only when the OS
\* transferred all sz bytes, and then those the target holds; on every failure (not
\* attached, address zero, unresolved address, OS call failed, short count) it
\* returns the empty vector.
C20_ReadBytesEmptyOnFailure ==
    (last.op = "Read" /\ last.T = "Bytes" /\ last.len > 0) =>
        IF InFull
        THEN last.val = [i \in 1..last.len |-> mem[last.eff[1] + i - 1]]
        ELSE last.val = << >>

\* C21: FindModuleBase reads no slot of its module array that the OS enumeration
\* did not fill: every index it reads is within the number of modules the OS
\* reported and within the capacity of the array, also when the target has more
\* modules loaded than the array holds.
C21_ReadsOnlyFilledSlots ==
    last.op = "FindModuleBase" =>
        \A i \in last.slots : i <= Len(modules) /\ i <= HModsCap

\* the positions in the calls on the snapshot handle at which it is closed
SnapshotCloses == { i \in 1..Len(last.snap) : last.snap[i] = "CloseHandle" }

\* C22: CreateFromName closes the snapshot handle exactly once on every path that
\* obtained one (match with successful attach, match with failed attach, no match,
\* empty or failed first enumeration step), makes no call on a snapshot when none
\* could be taken, and makes no call on the snapshot after closing it.
C22_SnapshotReleasedOnce ==
    last.op = "CreateFromName" =>
        /\ last.enumOk => (Cardinality(SnapshotCloses) = 1 /\ last.closes = 1)
        /\ ~last.enumOk => (last.snap = << >> /\ last.closes = 0)
        /\ \A i \in SnapshotCloses : i = Len(last.snap)

\* the second entry of the snapshot bears the name and its process cannot be
\* opened: the snapshot was stepped once, closed, and no accessor is returned
C22_Witness ==
    /\ last.op = "CreateFromName"
    /\ last.enumOk
    /\ NamedAlike # {}
    /\ Min(NamedAlike) = 2
    /\ ~Openable(2)
    /\ ~last.ret
    /\ last.snap = << "Process32FirstW", "Process32NextW", "CloseHandle" >>
====
